---- MODULE Spec2Model ----
(***************************************************************************)
(* Model of the interactive worksheet of aontas-10: the answer evaluator   *)
(* (renderQuestions / checkAnswers / setMode) and the pronunciation        *)
(* similarity scorer (levenshtein / similarity).                           *)
(*                                                                         *)
(* A JavaScript string is modelled as a sequence of one-character strings, *)
(* so that trimming, lower-casing, character filtering and substring       *)
(* search are computed character by character as the code computes them.   *)
(***************************************************************************)
EXTENDS Integers, Sequences, FiniteSets, TLC

VARIABLES
    exercises,   \* data.exercises: the exercise items embedded in the page
    mode,        \* the mode whose questions are rendered ("standard"/"adapted")
    dom,         \* per item: the inputs renderQuestions created, and their values
    fb,          \* per item: className of the ".feedback" element
    score,       \* scoreEl.textContent: hidden, or the two displayed counts
    event,       \* the handler the event loop ran last
    simA, simB,  \* arguments of the scorer call
    simOut,      \* value returned by similarity(simA, simB)
    levOut,      \* value returned by levenshtein(simA, simB)
    paraLine,    \* argument of a makeParagraph call
    paraOut,     \* the Paragraph it returned
    tblRun,      \* argument of a buildTableFromMarkdown call
    tblOut,      \* the Table it returned
    docLines,    \* the lines handed to the export functions
    docPc,       \* position of downloadDocx: "idle", "loop" or "done"
    docI,        \* its loop index i
    docBlocks,   \* its blocks array
    txtOut,      \* content of the file downloadTxt saved
    pdfOpts,     \* downloadPdf: marginTop, lineHeight and maxWidth in use
    pdfPc,       \* position of downloadPdf: "idle", "loop" or "done"
    pdfI,        \* index of the line the outer forEach is at
    pdfK,        \* index of the wrapped line the inner forEach is at
    pdfY,        \* its running offset y
    pdfPage,     \* number of pages of the jsPDF document
    pdfOut,      \* the doc.text calls made: text, offset, page
    epItems,     \* exercises route: parsed.items
    epOut,       \* exercises route: the response it returned
    loading,     \* page state: an adaptation request is running
    error,       \* page state: message of the failed adaptation, or null
    result,      \* page state: the adaptation held, or null
    exercisesState,    \* page state `exercises`: the exercise set held, or null
    loadingExercises,  \* page state: an exercises request is running
    exerciseError,     \* page state: message about the exercises, or null
    adaptReq,    \* the fetch of handleSubmit not yet settled
    exReq,       \* the fetch of handleGenerateExercises not yet settled
    exported     \* the adaptation whose lines handleDownload took last

vars == <<exercises, mode, dom, fb, score, event, simA, simB, simOut, levOut,
          paraLine, paraOut, tblRun, tblOut, docLines, docPc, docI, docBlocks, txtOut,
          pdfOpts, pdfPc, pdfI, pdfK, pdfY, pdfPage, pdfOut,
          epItems, epOut,
          loading, error, result, exercisesState, loadingExercises, exerciseError,
          adaptReq, exReq, exported>>

wsVars  == <<exercises, mode, dom, fb, score, event>>
simVars == <<simA, simB, simOut, levOut>>
pdfVars == <<pdfOpts, pdfPc, pdfI, pdfK, pdfY, pdfPage, pdfOut>>
docVars == <<paraLine, paraOut, tblRun, tblOut, docLines, docPc, docI, docBlocks, txtOut,
             pdfOpts, pdfPc, pdfI, pdfK, pdfY, pdfPage, pdfOut>>

appVars == <<loading, error, result, exercisesState, loadingExercises, exerciseError,
             adaptReq, exReq, exported>>
reqVars == <<epItems, epOut, loading, error, result, exercisesState, loadingExercises,
             exerciseError, adaptReq, exReq, exported>>

NotCalled == [called |-> FALSE]

\* null, for the page state that holds a message or null
Null == "null"

\* no adaptation: result is null
NoResult == 0

\* exercises is null
NoExercises == [isNull |-> TRUE, from |-> 0, count |-> 0]

\* no fetch in flight
NoFetch == [pending |-> FALSE, sent |-> 0]

\* The page as it is first rendered (useState initial values).
NoApp ==
    /\ loading = FALSE
    /\ error = Null
    /\ result = NoResult
    /\ exercisesState = NoExercises
    /\ loadingExercises = FALSE
    /\ exerciseError = Null
    /\ adaptReq = NoFetch
    /\ exReq = NoFetch
    /\ exported = NoResult

\* No request handled.
NoRequests ==
    /\ epItems = <<>>
    /\ epOut = NotCalled
    /\ NoApp

\* downloadPdf as handleDownload calls it: { fontSize: 11, lineHeight: 7 }
DefaultPdfOpts == [marginTop |-> 20, lineHeight |-> 7, maxWidth |-> 170]

\* downloadPdf not called
NoPdf ==
    /\ pdfOpts = DefaultPdfOpts
    /\ pdfPc = "idle"
    /\ pdfI = 0 /\ pdfK = 0 /\ pdfY = 0 /\ pdfPage = 0
    /\ pdfOut = <<>>

\* No export in progress and no export function called.
NoDocument ==
    /\ paraLine = <<>> /\ paraOut = NotCalled
    /\ tblRun = <<>> /\ tblOut = NotCalled
    /\ docLines = <<>>
    /\ docPc = "idle"
    /\ docI = 0
    /\ docBlocks = <<>>
    /\ txtOut = NotCalled
    /\ NoPdf

----------------------------------------------------------------------------
(* Bounds *)

MaxItems  == 2   \* largest multi-item exercise set
MaxLevLen == 3   \* longest argument of levenshtein
MaxSimLen == 3   \* longest argument of similarity

----------------------------------------------------------------------------
(* Strings *)

Min2(x, y) == IF x <= y THEN x ELSE y
Max2(x, y) == IF x >= y THEN x ELSE y

\* All sequences over S of length at most n.
RECURSIVE StringsUpTo(_, _)
StringsUpTo(S, n) ==
    IF n = 0 THEN { <<>> }
    ELSE LET shorter == StringsUpTo(S, n - 1)
         IN  shorter \cup { Append(s, c) : s \in { t \in shorter : Len(t) = n - 1 }, c \in S }

UpperChars == <<"A", "B", "D", "E", "M", "O", "R">>
LowerChars == <<"a", "b", "d", "e", "m", "o", "r">>

IsSpace(c) == c = " "

toLowerCaseChar(c) ==
    IF \E k \in 1..Len(UpperChars) : UpperChars[k] = c
    THEN LowerChars[CHOOSE k \in 1..Len(UpperChars) : UpperChars[k] = c]
    ELSE c

\* String.prototype.toLowerCase
toLowerCase(s) == [k \in 1..Len(s) |-> toLowerCaseChar(s[k])]

\* String.prototype.trim
RECURSIVE trimStart(_)
trimStart(s) == IF Len(s) > 0 /\ IsSpace(s[1]) THEN trimStart(Tail(s)) ELSE s

RECURSIVE trimEnd(_)
trimEnd(s) ==
    IF Len(s) > 0 /\ IsSpace(s[Len(s)]) THEN trimEnd(SubSeq(s, 1, Len(s) - 1)) ELSE s

trim(s) == trimEnd(trimStart(s))

\* String.prototype.indexOf: first 0-based position of needle in hay, or -1.
indexOf(hay, needle) ==
    LET hits == { k \in 0..(Len(hay) - Len(needle)) :
                    SubSeq(hay, k + 1, k + Len(needle)) = needle }
    IN  IF hits = {} THEN -1 ELSE CHOOSE k \in hits : \A h \in hits : k <= h

----------------------------------------------------------------------------
(* Exercise data: the items the page embeds (ExerciseItem) *)

Modes == {"standard", "adapted"}

T_empty    == <<>>
T_gist     == <<"g", "i", "s", "t">>
T_detail   == <<"d", "e", "t", "a", "i", "l">>
T_cloze    == <<"c", "l", "o", "z", "e">>
T_ordering == <<"o", "r", "d", "e", "r", "i", "n", "g">>
T_idea     == <<"m", "a", "i", "n", " ", "i", "d", "e", "a">>
T_Matching == <<"M", "a", "t", "c", "h", "i", "n", "g">>
T_ORDER    == <<"w", "o", "r", "d", " ", "O", "R", "D", "E", "R">>
T_order    == <<"o", "r", "d", "e", "r">>
T_matching == <<"m", "a", "t", "c", "h", "i", "n", "g">>

\* (type, skill) texts of an item; an absent field is the empty text,
\* which is what `item.type || ""` makes of it.
TypeSkills ==
    { <<T_gist, T_idea>>, <<T_ordering, T_idea>>, <<T_detail, T_Matching>>,
      <<T_cloze, T_ORDER>>, <<T_empty, T_empty>> }

\* Answer texts, option texts and what a learner may type.
W_empty == <<>>
W_sp    == <<" ">>
W_a     == <<"a">>
W_A     == <<" ", "A", " ">>
W_As    == <<"A", " ">>
W_sA    == <<" ", "A">>
W_b     == <<"b">>
W_ab    == <<"a", "b">>

\* item.answer: a single string or an array of strings.  An absent answer
\* behaves as the empty string in every test checkAnswers makes.
SingleAnswers == { W_empty, W_a, W_A, W_ab, W_b }
ArrayAnswers  == { <<>>, <<W_a>>, <<W_As, W_b>>, <<W_empty, W_a>>, <<W_sp>> }

Answers ==
    { [isArray |-> FALSE, text |-> t, list |-> <<>>] : t \in SingleAnswers }
    \cup { [isArray |-> TRUE, text |-> <<>>, list |-> l] : l \in ArrayAnswers }

\* side.options; absent and empty arrays take the same branches everywhere
\* (`side.options && side.options.length`), so both are the empty sequence.
OptionLists == { <<>>, <<W_a, W_b>>, <<W_sA, W_ab>>, <<W_b, W_ab>>, <<W_empty, W_b>> }

Typed == { W_empty, W_sp, W_a, W_sA, W_b, W_ab }

Item(ts, ans, so, ao) ==
    [type |-> ts[1], skill |-> ts[2], answer |-> ans,
     standard |-> [options |-> so], adapted |-> [options |-> ao]]

\* Every combination of type/skill, answer shape and option lists.
ItemPool ==
    { Item(ts, ans, so, ao) :
        ts \in TypeSkills, ans \in Answers, so \in OptionLists, ao \in OptionLists }

\* Items used for sets of several exercises.
SetPool ==
    { Item(<<T_ordering, T_idea>>, [isArray |-> FALSE, text |-> W_a, list |-> <<>>], <<>>, <<>>),
      Item(<<T_gist, T_idea>>, [isArray |-> FALSE, text |-> W_ab, list |-> <<>>], <<>>, <<>>),
      Item(<<T_gist, T_idea>>, [isArray |-> FALSE, text |-> W_a, list |-> <<>>],
           <<W_a, W_b>>, <<W_sA, W_ab>>),
      Item(<<T_cloze, T_idea>>, [isArray |-> TRUE, text |-> <<>>, list |-> <<W_As>>], <<>>, <<>>) }

\* A set is one item of the pool, or several different items of SetPool.
ExerciseSets ==
    { <<it>> : it \in ItemPool }
    \cup UNION { { f \in [1..n -> SetPool] : \A i, j \in 1..n : f[i] = f[j] => i = j }
                 : n \in 2..MaxItems }

Ids == 1..Len(exercises)

----------------------------------------------------------------------------
(* renderQuestions *)

FreshFeedback == "feedback"

\* The inputs created for one item: radios when the side of the mode has
\* options, else one text input per expected value (data-blank), else one
\* free-text input.
renderQuestion(item, m) ==
    LET side == IF m = "standard" THEN item.standard ELSE item.adapted
    IN  IF Len(side.options) > 0
        THEN [radios |-> side.options, checked |-> 0,
              labelClass |-> [k \in 1..Len(side.options) |-> ""],
              texts |-> <<>>, blank |-> FALSE]
        ELSE IF item.answer.isArray
        THEN [radios |-> <<>>, checked |-> 0, labelClass |-> <<>>,
              texts |-> [k \in 1..Len(item.answer.list) |-> <<>>], blank |-> TRUE]
        ELSE [radios |-> <<>>, checked |-> 0, labelClass |-> <<>>,
              texts |-> << <<>> >>, blank |-> FALSE]

renderQuestions(items, m) == [i \in 1..Len(items) |-> renderQuestion(items[i], m)]

NoScore == [shown |-> FALSE, correct |-> 0, total |-> 0]

----------------------------------------------------------------------------
(* checkAnswers *)

normalize(str) == toLowerCase(trim(str))

\* isTeacherChecked without the test of the skill text for "order"
isTeacherChecked_noSkillOrder(item) ==
    LET qType  == toLowerCase(item.type)
        qSkill == toLowerCase(item.skill)
    IN  \/ indexOf(qType, T_matching) # -1
        \/ indexOf(qSkill, T_matching) # -1
        \/ indexOf(qType, T_order) # -1

\* Question types hard-coded as teacher-checked.
isTeacherChecked(item) ==
    LET qType  == toLowerCase(item.type)
        qSkill == toLowerCase(item.skill)
    IN  \/ indexOf(qType, T_matching) # -1
        \/ indexOf(qSkill, T_matching) # -1
        \/ indexOf(qType, T_order) # -1
        \/ indexOf(qSkill, T_order) # -1

\* The option list the answer key is looked up in.
optionsList(item) ==
    IF Len(item.standard.options) > 0 THEN item.standard.options
    ELSE IF Len(item.adapted.options) > 0 THEN item.adapted.options
    ELSE <<>>

hasExactOption(item) ==
    \E k \in 1..Len(optionsList(item)) :
        normalize(optionsList(item)[k]) = normalize(item.answer.text)

\* value of the checked radio, "" when none is checked
chosenValue(el) == IF el.checked = 0 THEN <<>> ELSE el.radios[el.checked]

blankIsCorrect(val, target) == ~(val = <<>> \/ val # target)

\* multiBlankCorrect looking at the first blank only
multiBlankCorrect_firstOnly(ans, inputs) ==
    blankIsCorrect(normalize(inputs[1]), normalize(ans[1]))

multiBlankCorrect(ans, inputs) ==
    \A idx \in 1..Len(inputs) :
        blankIsCorrect(normalize(inputs[idx]), normalize(ans[idx]))

choiceIsCorrect(chosen, normalizedAns) == normalize(chosen) = normalizedAns

\* freeTextCorrect without the test for the answer inside the submission
freeTextCorrect_oneWay(val, target) ==
    /\ val # <<>>
    /\ \/ val = target
       \/ indexOf(target, val) # -1

freeTextCorrect(val, target) ==
    /\ val # <<>>
    /\ \/ val = target
       \/ indexOf(target, val) # -1
       \/ indexOf(val, target) # -1

\* One iteration of the forEach of checkAnswers: `auto` and `isCorrect` as
\* they stand when the feedback is written, and whether total was incremented.
gradeItem(item, el) ==
    IF isTeacherChecked(item)
    THEN [auto |-> FALSE, counted |-> FALSE, isCorrect |-> FALSE]
    ELSE IF item.answer.isArray
    THEN LET inputs == IF el.blank THEN el.texts ELSE <<>>
         IN  IF Len(inputs) = 0 \/ Len(inputs) # Len(item.answer.list)
             THEN [auto |-> FALSE, counted |-> FALSE, isCorrect |-> FALSE]
             ELSE [auto |-> TRUE, counted |-> TRUE,
                   isCorrect |-> multiBlankCorrect(item.answer.list, inputs)]
    ELSE IF Len(el.radios) > 0
    THEN IF ~hasExactOption(item)
         THEN [auto |-> FALSE, counted |-> FALSE, isCorrect |-> FALSE]
         ELSE [auto |-> TRUE, counted |-> TRUE,
               isCorrect |-> choiceIsCorrect(chosenValue(el), normalize(item.answer.text))]
    ELSE IF Len(el.texts) = 0
    THEN [auto |-> FALSE, counted |-> FALSE, isCorrect |-> FALSE]
    ELSE [auto |-> TRUE, counted |-> TRUE,
          isCorrect |-> freeTextCorrect(normalize(el.texts[1]), normalize(item.answer.text))]

feedbackClass(g) ==
    IF ~g.auto THEN "feedback neutral"
    ELSE IF g.isCorrect THEN "feedback correct"
    ELSE "feedback incorrect"

\* The classes of the radio labels after the item was graded: touched only
\* on the multiple-choice path that found the answer among the options.
markChoice(item, el, g) ==
    IF ~isTeacherChecked(item) /\ ~item.answer.isArray
       /\ Len(el.radios) > 0 /\ hasExactOption(item)
    THEN [el EXCEPT !.labelClass =
            [k \in 1..Len(el.radios) |->
                IF k = el.checked
                THEN (IF g.isCorrect THEN "correct-choice" ELSE "incorrect-choice")
                ELSE ""]]
    ELSE el

\* tally incrementing total for every item visited
RECURSIVE tally_countAll(_, _, _)
tally_countAll(items, els, k) ==
    IF k = 0 THEN [correct |-> 0, total |-> 0]
    ELSE LET prev == tally_countAll(items, els, k - 1)
             g    == gradeItem(items[k], els[k])
         IN  [correct |-> prev.correct + (IF g.auto /\ g.isCorrect THEN 1 ELSE 0),
              total   |-> prev.total + 1]

\* tally starting from the counts on display instead of zero
RECURSIVE tally_accumulates(_, _, _)
tally_accumulates(items, els, k) ==
    IF k = 0 THEN [correct |-> score.correct, total |-> score.total]
    ELSE LET prev == tally_accumulates(items, els, k - 1)
             g    == gradeItem(items[k], els[k])
         IN  [correct |-> prev.correct + (IF g.auto /\ g.isCorrect THEN 1 ELSE 0),
              total   |-> prev.total + (IF g.counted THEN 1 ELSE 0)]

\* The counters after the first k items were visited.
RECURSIVE tally(_, _, _)
tally(items, els, k) ==
    IF k = 0 THEN [correct |-> 0, total |-> 0]
    ELSE LET prev == tally(items, els, k - 1)
             g    == gradeItem(items[k], els[k])
         IN  [correct |-> prev.correct + (IF g.auto /\ g.isCorrect THEN 1 ELSE 0),
              total   |-> prev.total + (IF g.counted THEN 1 ELSE 0)]

checkAnswers ==
    LET n == Len(exercises)
        t == tally(exercises, dom, n)
    IN  /\ fb' = [i \in 1..n |-> feedbackClass(gradeItem(exercises[i], dom[i]))]
        /\ dom' = [i \in 1..n |-> markChoice(exercises[i], dom[i], gradeItem(exercises[i], dom[i]))]
        /\ score' = [shown |-> TRUE, correct |-> t.correct, total |-> t.total]
        /\ event' = "check"
        /\ UNCHANGED <<exercises, mode>>
        /\ UNCHANGED simVars
        /\ UNCHANGED docVars
        /\ UNCHANGED reqVars

----------------------------------------------------------------------------
(* setMode and the learner's input events *)

setMode(m) ==
    /\ mode' = m
    /\ dom' = renderQuestions(exercises, m)
    /\ fb' = [i \in Ids |-> FreshFeedback]
    /\ score' = NoScore
    /\ event' = "setMode"
    /\ UNCHANGED exercises
    /\ UNCHANGED simVars
    /\ UNCHANGED docVars
    /\ UNCHANGED reqVars

\* The learner types into the k-th text input of item i.
typeText(i, k, s) ==
    /\ k \in 1..Len(dom[i].texts)
    /\ dom[i].texts[k] # s
    /\ dom' = [dom EXCEPT ![i].texts[k] = s]
    /\ event' = "input"
    /\ UNCHANGED <<exercises, mode, fb, score>>
    /\ UNCHANGED simVars
    /\ UNCHANGED docVars
    /\ UNCHANGED reqVars

\* The learner clicks the k-th radio of item i.
clickRadio(i, k) ==
    /\ k \in 1..Len(dom[i].radios)
    /\ dom[i].checked # k
    /\ dom' = [dom EXCEPT ![i].checked = k]
    /\ event' = "input"
    /\ UNCHANGED <<exercises, mode, fb, score>>
    /\ UNCHANGED simVars
    /\ UNCHANGED docVars
    /\ UNCHANGED reqVars

NoSim == [called |-> FALSE]

\* The page after its script ran: renderHeader(); setMode("standard").
Init ==
    /\ exercises \in ExerciseSets
    /\ mode = "standard"
    /\ dom = renderQuestions(exercises, "standard")
    /\ fb = [i \in 1..Len(exercises) |-> FreshFeedback]
    /\ score = NoScore
    /\ event = "load"
    /\ simA = <<>> /\ simB = <<>>
    /\ simOut = NoSim /\ levOut = NoSim
    /\ NoDocument
    /\ NoRequests

Next ==
    \/ \E m \in Modes : setMode(m)
    \/ \E i \in Ids : \E k \in 1..Len(dom[i].texts), s \in Typed : typeText(i, k, s)
    \/ \E i \in Ids : \E k \in 1..Len(dom[i].radios) : clickRadio(i, k)
    \/ checkAnswers

Spec == Init /\ [][Next]_vars

----------------------------------------------------------------------------
(* levenshtein *)

Min3(x, y, z) == Min2(x, Min2(y, z))

\* levCell without the insertion term
levCell_noInsert(up, left, diag, cost) == Min2(up + 1, diag + cost)

\* levCell charging 2 for a deletion
levCell_delete2(up, left, diag, cost) == Min3(up + 2, left + 1, diag + cost)

\* dp[i2][j2] from its three neighbours
levCell(up, left, diag, cost) == Min3(up + 1, left + 1, diag + cost)

\* substCost charging every substitution, equal characters included
substCost_always(x, y) == 1

\* cost of aligning character x of a with character y of b
substCost(x, y) == IF x = y THEN 0 ELSE 1

\* Row i2 of dp, filled left to right.  A row is the sequence
\* dp[i][0], ..., dp[i][n], so dp[i][j] is element j + 1.
RECURSIVE levRow(_, _, _, _, _)
levRow(a, b, i2, prev, row) ==
    LET j2 == Len(row)
    IN  IF j2 > Len(b) THEN row
        ELSE LET cost == substCost(a[i2], b[j2])
             IN  levRow(a, b, i2, prev,
                        Append(row, levCell(prev[j2 + 1], row[j2], prev[j2], cost)))

\* Rows 1..m on top of row i2 - 1.
RECURSIVE levRows(_, _, _, _)
levRows(a, b, i2, prev) ==
    IF i2 > Len(a) THEN prev
    ELSE levRows(a, b, i2 + 1, levRow(a, b, i2, prev, <<i2>>))

levenshtein(a, b) ==
    LET m == Len(a)
        n == Len(b)
        row0 == [j \in 1..(n + 1) |-> j - 1]
    IN  levRows(a, b, 1, row0)[n + 1]

----------------------------------------------------------------------------
(* similarity *)

\* The scorer is part of the page script, which the application emits from
\* a template literal; there the escape \s stands for the letter s, so the
\* class the page runs is [^a-zà-ÿ...0-9s]: lower-case letters,
\* accented letters and digits are kept, everything else (white space
\* included) is removed.
AllowedChars ==
    { "a", "b", "c", "d", "e", "f", "g", "h", "i", "j", "k", "l", "m",
      "n", "o", "p", "q", "r", "s", "t", "u", "v", "w", "x", "y", "z",
      "0", "1", "2", "3", "4", "5", "6", "7", "8", "9" }

isAllowedChar(c) == c \in AllowedChars

\* .replace(/[^...]/g, "")
stripDisallowed(s) == SelectSeq(s, isAllowedChar)

\* `a || ""`: a missing argument reads as the empty string
orEmpty(x) == IF x.given THEN x.s ELSE <<>>

simNormalize(x) == trim(stripDisallowed(toLowerCase(orEmpty(x))))

\* The score 1 - dist / maxLen as the exact fraction num / den.
scoreOf(dist, maxLen) == [called |-> TRUE, num |-> maxLen - dist, den |-> maxLen]

ZeroScore == [called |-> TRUE, num |-> 0, den |-> 1]

\* similarity without the test for an empty normalized string
similarity_noGuard(a, b) ==
    LET s1 == simNormalize(a)
        s2 == simNormalize(b)
    IN  scoreOf(levenshtein(s1, s2), Max2(Len(s1), Len(s2)))

\* similarity dividing by the shorter length
similarity_minLen(a, b) ==
    LET s1 == simNormalize(a)
        s2 == simNormalize(b)
    IN  IF s1 = <<>> \/ s2 = <<>> THEN ZeroScore
        ELSE scoreOf(levenshtein(s1, s2), Min2(Len(s1), Len(s2)))

similarity(a, b) ==
    LET s1 == simNormalize(a)
        s2 == simNormalize(b)
    IN  IF s1 = <<>> \/ s2 = <<>> THEN ZeroScore
        ELSE scoreOf(levenshtein(s1, s2), Max2(Len(s1), Len(s2)))

Given(t) == [given |-> TRUE, s |-> t]
Missing  == [given |-> FALSE, s |-> <<>>]

LevAlphabet == {"a", "b", "c"}
SimAlphabet == {"a", "b", "A", " ", "!"}

LevArgs == { Given(t) : t \in StringsUpTo(LevAlphabet, MaxLevLen) }
SimArgs == { Missing } \cup { Given(t) : t \in StringsUpTo(SimAlphabet, MaxSimLen) }

\* A page with no exercises, on which only the scorer is exercised.
NoWorksheet ==
    /\ exercises = <<>>
    /\ mode = "standard"
    /\ dom = <<>>
    /\ fb = <<>>
    /\ score = NoScore
    /\ event = "load"

callLevenshtein ==
    /\ ~levOut.called
    /\ levOut' = [called |-> TRUE, dist |-> levenshtein(orEmpty(simA), orEmpty(simB))]
    /\ UNCHANGED <<simA, simB, simOut>>
    /\ UNCHANGED wsVars
    /\ UNCHANGED docVars
    /\ UNCHANGED reqVars

callSimilarity ==
    /\ ~simOut.called
    /\ simOut' = similarity(simA, simB)
    /\ UNCHANGED <<simA, simB, levOut>>
    /\ UNCHANGED wsVars
    /\ UNCHANGED docVars
    /\ UNCHANGED reqVars

InitLev ==
    /\ NoWorksheet
    /\ simA \in LevArgs /\ simB \in LevArgs
    /\ simOut = NoSim /\ levOut = NoSim
    /\ NoDocument
    /\ NoRequests

NextLev == callLevenshtein

SpecLev == InitLev /\ [][NextLev]_vars

InitSim ==
    /\ NoWorksheet
    /\ simA \in SimArgs /\ simB \in SimArgs
    /\ simOut = NoSim /\ levOut = NoSim
    /\ NoDocument
    /\ NoRequests

NextSim == callSimilarity

SpecSim == InitSim /\ [][NextSim]_vars

----------------------------------------------------------------------------
(* makeParagraph *)

MaxParaLen == 8   \* longest generated argument of makeParagraph

\* String.prototype.startsWith
startsWith(s, prefix) ==
    Len(s) >= Len(prefix) /\ SubSeq(s, 1, Len(prefix)) = prefix

BannerPrefixes ==
    { <<"A", "o", "n", "t", "a", "s", "-", "1", "0">>,
      <<"S", "t", "a", "n", "d", "a", "r", "d", " ", "R", "e", "a", "d", "i", "n", "g">>,
      <<"A", "d", "a", "p", "t", "e", "d", " ", "R", "e", "a", "d", "i", "n", "g">>,
      <<"S", "t", "a", "n", "d", "a", "r", "d", " ", "Q", "u", "e", "s", "t", "i", "o", "n", " ", "S", "h", "e", "e", "t">>,
      <<"A", "d", "a", "p", "t", "e", "d", " ", "Q", "u", "e", "s", "t", "i", "o", "n", " ", "S", "h", "e", "e", "t">>,
      <<"A", "o", "n", "t", "a", "s", "-", "1", "0", " ", "EN_DASH", " ", "S", "t", "a", "n", "d", "a", "r", "d">>,
      <<"A", "o", "n", "t", "a", "s", "-", "1", "0", " ", "EN_DASH", " ", "A", "d", "a", "p", "t", "e", "d">>,
      <<"A", "o", "n", "t", "a", "s", "-", "1", "0", " ", "EN_DASH", " ", "T", "e", "a", "c", "h", "e", "r", " ", "K", "e", "y">>,
      <<"T", "e", "a", "c", "h", "e", "r", " ", "K", "e", "y">> }

MetaPrefixes ==
    { <<"S", "o", "u", "r", "c", "e", ":">>,
      <<"S", "o", "u", "r", "c", "e", " ", "t", "i", "t", "l", "e", ":">>,
      <<"S", "o", "u", "r", "c", "e", " ", "U", "R", "L", ":">>,
      <<"E", "x", "e", "r", "c", "i", "s", "e", " ", "b", "l", "o", "c", "k", "s", ":">>,
      <<"O", "u", "t", "p", "u", "t", " ", "l", "a", "n", "g", "u", "a", "g", "e", ":">>,
      <<"L", "e", "v", "e", "l", " ", "(", "C", "E", "F", "R", ")", ":">>,
      <<"O", "u", "t", "p", "u", "t", " ", "t", "y", "p", "e", ":">>,
      <<"S", "t", "a", "n", "d", "a", "r", "d", " ", "t", "e", "x", "t", " ", "l", "e", "n", "g", "t", "h", ":">>,
      <<"N", "o", "t", "e", ":">> }

Eq3 == <<"=", "=", "=">>

AllSpace(s) == \A k \in 1..Len(s) : IsSpace(s[k])

\* /^===.*===\s*$/.test(t)
isSectionPattern(t) ==
    /\ startsWith(t, Eq3)
    /\ \E p \in 4..(Len(t) - 2) :
          /\ SubSeq(t, p, p + 2) = Eq3
          /\ AllSpace(SubSeq(t, p + 3, Len(t)))

\* t.replace(/^===\s*/, "")
stripLeadingDecoration(t) ==
    IF startsWith(t, Eq3) THEN trimStart(SubSeq(t, 4, Len(t))) ELSE t

\* the suffix of t from position q on matches \s*===\s*$
tailMatchesAt(t, q) ==
    LET rest == trimStart(SubSeq(t, q, Len(t)))
    IN  startsWith(rest, Eq3) /\ AllSpace(SubSeq(rest, 4, Len(rest)))

\* t.replace(/\s*===\s*$/, ""): the leftmost match is removed
stripTrailingDecoration(t) ==
    LET starts == { q \in 1..Len(t) : tailMatchesAt(t, q) }
    IN  IF starts = {} THEN t
        ELSE SubSeq(t, 1, (CHOOSE q \in starts : \A r \in starts : q <= r) - 1)

\* the text kept as it is, the empty one too
orSpace_keepsEmpty(x) == x

\* `x || " "`
orSpace(x) == IF x = <<>> THEN <<" ">> ELSE x

\* A docx Paragraph with one TextRun.  `styled` tells the paragraphs that
\* makeParagraph builds (alignment and spacing set) from the bare paragraph
\* of a table cell.
Paragraph(text, size, bold, border, styled, after, before) ==
    [kind |-> "paragraph", text |-> text, font |-> "Arial", size |-> size,
     bold |-> bold, border |-> border, styled |-> styled,
     after |-> after, before |-> before]

makeParagraph(line) ==
    LET trimmed == trim(line)
        isBannerHeading == \E b \in BannerPrefixes : startsWith(trimmed, b)
        isSectionHeading == isSectionPattern(trimmed)
        text == IF isSectionHeading
                THEN stripTrailingDecoration(stripLeadingDecoration(trimmed))
                ELSE orSpace(line)
        isHeading == isBannerHeading \/ isSectionHeading
        isMeta == \E m \in MetaPrefixes : startsWith(trimmed, m)
        fontSize == IF isMeta THEN 20 ELSE IF isHeading THEN 26 ELSE 22
    IN  Paragraph(orSpace(text), fontSize, isHeading, isSectionHeading, TRUE,
                  IF isHeading THEN 160 ELSE 80, IF isHeading THEN 120 ELSE 0)

L_standardOutput == <<"=", "=", "=", "=", "=", " ", "S", "T", "A", "N", "D", "A", "R", "D", " ", "O", "U", "T", "P", "U", "T", " ", "=", "=", "=", "=", "=">>
L_readingText    == <<"=", "=", "=", " ", "R", "e", "a", "d", "i", "n", "g", " ", "t", "e", "x", "t", " ", "(", "S", "T", "A", "N", "D", "A", "R", "D", " ", "v", "e", "r", "s", "i", "o", "n", ")", " ", "=", "=", "=">>
L_export         == <<"A", "o", "n", "t", "a", "s", "-", "1", "0", " ", "e", "x", "p", "o", "r", "t">>
L_level          == <<"L", "e", "v", "e", "l", " ", "(", "C", "E", "F", "R", ")", ":", " ", "B", "1">>
L_teacherKey     == <<" ", "T", "e", "a", "c", "h", "e", "r", " ", "K", "e", "y">>

ParaAlphabet == {"=", " ", "x"}

\* Lines handed to makeParagraph: every short line over the alphabet, and
\* lines the application itself writes.
ParaLines ==
    StringsUpTo(ParaAlphabet, MaxParaLen)
    \cup { L_standardOutput, L_readingText, L_export, L_level, L_teacherKey }

callMakeParagraph ==
    /\ ~paraOut.called
    /\ paraOut' = [called |-> TRUE, p |-> makeParagraph(paraLine)]
    /\ UNCHANGED <<paraLine, tblRun, tblOut, docLines, docPc, docI, docBlocks, txtOut>>
    /\ UNCHANGED pdfVars
    /\ UNCHANGED wsVars
    /\ UNCHANGED reqVars
    /\ UNCHANGED simVars

NoScorer ==
    /\ simA = <<>> /\ simB = <<>>
    /\ simOut = NoSim /\ levOut = NoSim

InitPara ==
    /\ NoWorksheet
    /\ NoScorer
    /\ NoRequests
    /\ paraLine \in ParaLines /\ paraOut = NotCalled
    /\ tblRun = <<>> /\ tblOut = NotCalled
    /\ docLines = <<>> /\ docPc = "idle" /\ docI = 0 /\ docBlocks = <<>>
    /\ txtOut = NotCalled
    /\ NoPdf

NextPara == callMakeParagraph

SpecPara == InitPara /\ [][NextPara]_vars

----------------------------------------------------------------------------
(* buildTableFromMarkdown *)

MaxRunLen == 3   \* longest generated run of table lines

\* String.prototype.split(sep) for a one-character separator
RECURSIVE splitFrom(_, _, _)
splitFrom(s, sep, cur) ==
    IF s = <<>> THEN <<cur>>
    ELSE IF Head(s) = sep THEN <<cur>> \o splitFrom(Tail(s), sep, <<>>)
    ELSE splitFrom(Tail(s), sep, Append(cur, Head(s)))

split(s, sep) == splitFrom(s, sep, <<>>)

\* slice(1): the last segment is kept
sliceInner_keepLast(arr) == SubSeq(arr, 2, Len(arr))

\* Array.prototype.slice(1, -1)
sliceInner(arr) == SubSeq(arr, 2, Len(arr) - 1)

\* raw.split("|").slice(1, -1).map((p) => p.trim())
tableParts(raw) ==
    LET segs == sliceInner(split(raw, "|"))
    IN  [k \in 1..Len(segs) |-> trim(segs[k])]

\* cell.replace(/:/g, "")
removeColons(cell) == SelectSeq(cell, LAMBDA c : c # ":")

\* /^-+$/.test(x)
isHyphens(x) == x # <<>> /\ \A k \in 1..Len(x) : x[k] = "-"

\* isSeparatorRow holding as soon as one cell is made of hyphens
isSeparatorRow_some(parts) ==
    \E k \in 1..Len(parts) : isHyphens(removeColons(parts[k]))

isSeparatorRow(parts) ==
    \A k \in 1..Len(parts) : isHyphens(removeColons(parts[k]))

\* A TableCell: the paragraphs it holds.
TableCell(children) == [children |-> children]

\* The cell of a parsed row: one bare paragraph, bold in the header row.
textCell(cellText, isHeader) ==
    TableCell(<< Paragraph(orSpace(cellText), 22, isHeader, FALSE, FALSE, 0, 0) >>)

\* One call of the forEach callback: rows and headerDone afterwards.
tableStep(acc, raw) ==
    LET parts == tableParts(raw)
    IN  IF Len(parts) = 0 THEN acc
        ELSE IF isSeparatorRow(parts) THEN acc
        ELSE [rows |-> Append(acc.rows,
                              [k \in 1..Len(parts) |-> textCell(parts[k], ~acc.headerDone)]),
              headerDone |-> TRUE]

RECURSIVE tableFold(_, _)
tableFold(tableLines, k) ==
    IF k = 0 THEN [rows |-> <<>>, headerDone |-> FALSE]
    ELSE tableStep(tableFold(tableLines, k - 1), tableLines[k])

\* A docx Table; width 0 stands for a table built without a width.
Table(rows, width) == [kind |-> "table", rows |-> rows, width |-> width]

\* the fallback cell holding only the first line of the run
buildTableFromMarkdown_firstLine(tableLines) ==
    LET rows == tableFold(tableLines, Len(tableLines)).rows
    IN  IF Len(rows) = 0
        THEN Table(<< << TableCell(<< makeParagraph(tableLines[1]) >>) >> >>, 0)
        ELSE Table(rows, 100)

buildTableFromMarkdown(tableLines) ==
    LET rows == tableFold(tableLines, Len(tableLines)).rows
    IN  IF Len(rows) = 0
        THEN Table(<< << TableCell([k \in 1..Len(tableLines) |->
                                      makeParagraph(tableLines[k])]) >> >>, 0)
        ELSE Table(rows, 100)

Pipe == <<"|">>

TableCellTexts == { <<" ", "A", " ">>, <<"b">>, <<"-">>, <<":", "-", ":">> }

\* Lines a run can hold: they are trimmed and start with a pipe.
TableLinePool ==
    { Pipe \o c \o Pipe : c \in TableCellTexts }
    \cup { Pipe \o c \o Pipe \o d \o Pipe : c \in TableCellTexts, d \in { <<"b">>, <<"-">> } }
    \cup { <<"|", "|">>,
           <<"|", " ", "|", "b", "|">>,
           <<"|", " ", "A", " ", "|", " ", "b">>,
           <<"|", "x">>,
           <<"|">> }

\* the test that opens a table block: a second pipe after the first
hasSecondPipe(t) == \E k \in 2..Len(t) : t[k] = "|"

\* Runs downloadDocx can collect: the first line has a second pipe.
TableRuns ==
    { r \in UNION { [1..n -> TableLinePool] : n \in 1..MaxRunLen } : hasSecondPipe(r[1]) }

callBuildTable ==
    /\ ~tblOut.called
    /\ tblOut' = [called |-> TRUE, t |-> buildTableFromMarkdown(tblRun)]
    /\ UNCHANGED <<paraLine, paraOut, tblRun, docLines, docPc, docI, docBlocks, txtOut>>
    /\ UNCHANGED pdfVars
    /\ UNCHANGED wsVars
    /\ UNCHANGED reqVars
    /\ UNCHANGED simVars

InitTable ==
    /\ NoWorksheet
    /\ NoScorer
    /\ NoRequests
    /\ paraLine = <<>> /\ paraOut = NotCalled
    /\ tblRun \in TableRuns /\ tblOut = NotCalled
    /\ docLines = <<>> /\ docPc = "idle" /\ docI = 0 /\ docBlocks = <<>>
    /\ txtOut = NotCalled
    /\ NoPdf

NextTable == callBuildTable

SpecTable == InitTable /\ [][NextTable]_vars

----------------------------------------------------------------------------
(* downloadDocx: the walk over the export lines; downloadTxt *)

MaxDocLines == 3   \* longest generated list of export lines

\* trimmed.startsWith("|") && trimmed.indexOf("|", 1) !== -1
opensTable(raw) ==
    LET trimmed == trim(raw)
    IN  startsWith(trimmed, Pipe) /\ hasSecondPipe(trimmed)

\* the inner loop test: lines[i].trim().startsWith("|")
continuesTable(raw) == startsWith(trim(raw), Pipe)

\* The index at which the inner while loop stops, entered at index i (0-based).
RECURSIVE tableEnd(_, _)
tableEnd(lines, i) ==
    IF i < Len(lines) /\ continuesTable(lines[i + 1]) THEN tableEnd(lines, i + 1) ELSE i

\* lines.join("\n") without its newlines: every line kept
RECURSIVE join(_, _)
join(lines, sep) ==
    IF lines = <<>> THEN <<>>
    ELSE IF Len(lines) = 1 THEN Head(lines)
    ELSE Head(lines) \o <<sep>> \o join(Tail(lines), sep)

NL == "NEWLINE"

\* a plain-text file made of the trimmed lines
downloadTxtContent_trimmed(lines) == join([k \in 1..Len(lines) |-> trim(lines[k])], NL)

\* const content = lines.join("\n")
downloadTxtContent(lines) == join(lines, NL)

\* handleDownload with exportFormat "txt"
downloadTxt ==
    /\ ~txtOut.called
    /\ Len(docLines) > 0
    /\ txtOut' = [called |-> TRUE, content |-> downloadTxtContent(docLines)]
    /\ UNCHANGED <<paraLine, paraOut, tblRun, tblOut, docLines, docPc, docI, docBlocks>>
    /\ UNCHANGED pdfVars
    /\ UNCHANGED wsVars
    /\ UNCHANGED reqVars
    /\ UNCHANGED simVars

\* downloadDocx trimming the entries of the lines array it was given
startDocx_trimsLines ==
    /\ docPc = "idle"
    /\ Len(docLines) > 0
    /\ docPc' = "loop"
    /\ docI' = 0
    /\ docBlocks' = <<>>
    /\ docLines' = [k \in 1..Len(docLines) |-> trim(docLines[k])]
    /\ UNCHANGED <<paraLine, paraOut, tblRun, tblOut, txtOut>>
    /\ UNCHANGED pdfVars
    /\ UNCHANGED wsVars
    /\ UNCHANGED reqVars
    /\ UNCHANGED simVars

\* handleDownload with exportFormat "docx": blocks = [], i = 0
startDocx ==
    /\ docPc = "idle"
    /\ Len(docLines) > 0
    /\ docPc' = "loop"
    /\ docI' = 0
    /\ docBlocks' = <<>>
    /\ UNCHANGED <<paraLine, paraOut, tblRun, tblOut, docLines, txtOut>>
    /\ UNCHANGED pdfVars
    /\ UNCHANGED wsVars
    /\ UNCHANGED reqVars
    /\ UNCHANGED simVars

\* one iteration of while (i < lines.length)
composeStep ==
    /\ docPc = "loop"
    /\ docI < Len(docLines)
    /\ LET raw == docLines[docI + 1]
       IN  IF opensTable(raw)
           THEN LET e == tableEnd(docLines, docI)
                    tableLines == [k \in 1..(e - docI) |-> trim(docLines[docI + k])]
                IN  /\ docBlocks' = Append(docBlocks, buildTableFromMarkdown(tableLines))
                    /\ docI' = e
           ELSE /\ docBlocks' = Append(docBlocks, makeParagraph(raw))
                /\ docI' = docI + 1
    /\ UNCHANGED <<paraLine, paraOut, tblRun, tblOut, docLines, docPc, txtOut>>
    /\ UNCHANGED pdfVars
    /\ UNCHANGED wsVars
    /\ UNCHANGED reqVars
    /\ UNCHANGED simVars

\* the loop is left and the document is built from the blocks
finishDocx ==
    /\ docPc = "loop"
    /\ docI >= Len(docLines)
    /\ docPc' = "done"
    /\ UNCHANGED <<paraLine, paraOut, tblRun, tblOut, docLines, docI, docBlocks, txtOut>>
    /\ UNCHANGED pdfVars
    /\ UNCHANGED wsVars
    /\ UNCHANGED reqVars
    /\ UNCHANGED simVars

\* doc.splitTextToSize(text, maxWidth), with every character one unit wide:
\* the text cut into pieces of at most maxWidth characters, at least one piece
RECURSIVE splitTextToSize(_, _)
splitTextToSize(text, maxWidth) ==
    IF Len(text) <= maxWidth THEN <<text>>
    ELSE <<SubSeq(text, 1, maxWidth)>>
           \o splitTextToSize(SubSeq(text, maxWidth + 1, Len(text)), maxWidth)

\* the page threshold of downloadPdf
PageBottom == 280

\* the space added after each input line
LineGap == 2

\* a page is added at every wrapped line
needsPage_always(y) == TRUE

\* if (y > 280)
needsPage(y) == y > PageBottom

\* const doc = new jsPDF(); let y = marginTop
startPdf ==
    /\ pdfPc = "idle"
    /\ Len(docLines) > 0
    /\ pdfPc' = "loop"
    /\ pdfI' = 1 /\ pdfK' = 1
    /\ pdfY' = pdfOpts.marginTop
    /\ pdfPage' = 1
    /\ pdfOut' = <<>>
    /\ UNCHANGED <<pdfOpts, paraLine, paraOut, tblRun, tblOut, docLines, docPc, docI, docBlocks, txtOut>>
    /\ UNCHANGED wsVars
    /\ UNCHANGED reqVars
    /\ UNCHANGED simVars

\* one call of the inner forEach callback; after the last wrapped line of an
\* input line the outer callback adds the gap and the next line is taken
pdfStep ==
    /\ pdfPc = "loop"
    /\ pdfI <= Len(docLines)
    /\ LET pieces == splitTextToSize(orSpace(docLines[pdfI]), pdfOpts.maxWidth)
           broke  == needsPage(pdfY)
           y      == IF broke THEN pdfOpts.marginTop ELSE pdfY
           last   == pdfK = Len(pieces)
       IN  /\ pdfPage' = IF broke THEN pdfPage + 1 ELSE pdfPage
           /\ pdfOut' = Append(pdfOut, [text |-> pieces[pdfK], y |-> y, page |-> pdfPage'])
           /\ pdfY' = y + pdfOpts.lineHeight + (IF last THEN LineGap ELSE 0)
           /\ pdfI' = IF last THEN pdfI + 1 ELSE pdfI
           /\ pdfK' = IF last THEN 1 ELSE pdfK + 1
    /\ UNCHANGED <<pdfOpts, pdfPc, paraLine, paraOut, tblRun, tblOut, docLines, docPc, docI, docBlocks, txtOut>>
    /\ UNCHANGED wsVars
    /\ UNCHANGED reqVars
    /\ UNCHANGED simVars

\* doc.save(filename)
finishPdf ==
    /\ pdfPc = "loop"
    /\ pdfI > Len(docLines)
    /\ pdfPc' = "done"
    /\ UNCHANGED <<pdfOpts, pdfI, pdfK, pdfY, pdfPage, pdfOut, paraLine, paraOut, tblRun, tblOut, docLines, docPc, docI, docBlocks, txtOut>>
    /\ UNCHANGED wsVars
    /\ UNCHANGED reqVars
    /\ UNCHANGED simVars

\* Export lines: empty, white space only, text, section heading, table rows
\* with and without a closing pipe, a separator row, a line with one pipe,
\* an indented row.
DocLinePool ==
    { <<>>,
      <<" ", " ">>,
      <<"x">>,
      <<"=", "=", "=", "x", "=", "=", "=">>,
      <<"|", "A", "|", "b", "|">>,
      <<"|", "-", "|", "-", "|">>,
      <<"|", "x">>,
      <<" ", "|", "b", "|", " ">>,
      <<"|", "A", "|", "b">> }

DocLineLists == UNION { [1..n -> DocLinePool] : n \in 1..MaxDocLines }

InitDoc ==
    /\ NoWorksheet
    /\ NoScorer
    /\ NoRequests
    /\ paraLine = <<>> /\ paraOut = NotCalled
    /\ tblRun = <<>> /\ tblOut = NotCalled
    /\ docLines \in DocLineLists
    /\ docPc = "idle" /\ docI = 0 /\ docBlocks = <<>>
    /\ txtOut = NotCalled
    /\ NoPdf

NextDoc ==
    \/ downloadTxt
    \/ startDocx \/ composeStep \/ finishDocx
    \/ startPdf \/ pdfStep \/ finishPdf

SpecDoc == InitDoc /\ [][NextDoc]_vars

MaxPdfLines == 3   \* longest list of lines given to downloadPdf alone

PdfLinePool ==
    { <<>>,
      <<"x">>,
      <<"|", "A", "|", "b">>,
      <<"=", "=", "=", "x", "=", "=", "=">> }

\* opts a caller can pass: top margins up to the threshold, small and large
\* line heights, a width that wraps and the default one
PdfOptsPool ==
    [marginTop : {20, 270, 280}, lineHeight : {7, 300}, maxWidth : {2, 170}]

InitPdf ==
    /\ NoWorksheet
    /\ NoScorer
    /\ NoRequests
    /\ paraLine = <<>> /\ paraOut = NotCalled
    /\ tblRun = <<>> /\ tblOut = NotCalled
    /\ docLines \in UNION { [1..n -> PdfLinePool] : n \in 1..MaxPdfLines }
    /\ docPc = "idle" /\ docI = 0 /\ docBlocks = <<>>
    /\ txtOut = NotCalled
    /\ pdfOpts \in PdfOptsPool
    /\ pdfPc = "idle"
    /\ pdfI = 0 /\ pdfK = 0 /\ pdfY = 0 /\ pdfPage = 0
    /\ pdfOut = <<>>

NextPdf == startPdf \/ pdfStep \/ finishPdf

SpecPdf == InitPdf /\ [][NextPdf]_vars

----------------------------------------------------------------------------
(* The exercises route: making the ids consecutive *)

MaxEpItems == 3   \* most items in a generated parsed.items

\* ids the language model can assign: below 1, repeated, with gaps
EpIds == (-1)..(MaxEpItems + 1)

\* an item: its id and, as tag, its position in the model's answer
EpItemLists ==
    UNION { { [k \in 1..n |-> [id |-> ids[k], tag |-> k]] : ids \in [1..n -> EpIds] }
            : n \in 0..MaxEpItems }

\* where a stable ascending sort puts an item among those sorted before it
insertById(sorted, item) ==
    LET after == { k \in 1..Len(sorted) : sorted[k].id > item.id }
        at    == IF after = {} THEN Len(sorted) + 1
                 ELSE CHOOSE k \in after : \A m \in after : k <= m
    IN  SubSeq(sorted, 1, at - 1) \o <<item>> \o SubSeq(sorted, at, Len(sorted))

\* [...items].sort((a, b) => a.id - b.id)
RECURSIVE sortById(_, _)
sortById(items, k) ==
    IF k = 0 THEN <<>> ELSE insertById(sortById(items, k - 1), items[k])

\* sorted.every((item, idx) => item.id === idx + 1)
idsOk(sorted) == \A k \in 1..Len(sorted) : sorted[k].id = k

\* item.id = idx
renumber_fromZero(sorted) == [k \in 1..Len(sorted) |-> [sorted[k] EXCEPT !.id = k - 1]]

\* sorted.forEach((item, idx) => { item.id = idx + 1 })
renumber(sorted) == [k \in 1..Len(sorted) |-> [sorted[k] EXCEPT !.id = k]]

\* the tail of POST once parsed.items is an array
postExercises ==
    /\ ~epOut.called
    /\ LET sorted == sortById(epItems, Len(epItems))
       IN  epOut' = [called |-> TRUE, status |-> 200,
                     items |-> IF idsOk(sorted) THEN sorted ELSE renumber(sorted)]
    /\ UNCHANGED epItems
    /\ UNCHANGED appVars
    /\ UNCHANGED wsVars
    /\ UNCHANGED simVars
    /\ UNCHANGED docVars

InitEp ==
    /\ NoWorksheet
    /\ NoScorer
    /\ NoDocument
    /\ epItems \in EpItemLists
    /\ epOut = NotCalled
    /\ NoApp

NextEp == postExercises

SpecEp == InitEp /\ [][NextEp]_vars

----------------------------------------------------------------------------
(* The page component: handleSubmit, handleGenerateExercises, handleDownload *)

MaxResults == 2   \* distinct adaptations the adapt route answers with

\* ways the fetch of /api/adapt and the reading of its body can end
AdaptOutcomes ==
    { [kind |-> "ok", data |-> k, message |-> ""] : k \in 1..MaxResults }
    \cup { [kind |-> "notOk", data |-> 0, message |-> m] : m \in {"", "Server said no."} }
    \cup { [kind |-> "thrown", data |-> 0, message |-> m] : m \in {"", "Failed to fetch"} }

\* ways the fetch of /api/exercises can end; count is data.items.length
ExerciseOutcomes ==
    { [kind |-> "ok", count |-> n, message |-> ""] : n \in 0..1 }
    \cup { [kind |-> "notOk", count |-> 0, message |-> m] : m \in {"", "Server said no."} }
    \cup { [kind |-> "thrown", count |-> 0, message |-> m] : m \in {"", "Failed to fetch"} }

\* `x || fallback` for strings
orElse(x, fallback) == IF x = "" THEN fallback ELSE x

\* err.message in the catch block: of the Error thrown for a non-OK
\* response, or of the error fetch or response.json() threw
caughtMessage(o) == IF o.kind = "notOk" THEN orElse(o.message, "Request failed") ELSE o.message

\* the catch block of handleSubmit setting the message as caught
submitErrorText_asCaught(o) == caughtMessage(o)

\* err.message || "Something went wrong."
submitErrorText(o) == orElse(caughtMessage(o), "Something went wrong.")

\* handleSubmit up to its first await; the button is disabled while loading
submitStart ==
    /\ ~loading
    /\ loading' = TRUE
    /\ error' = Null
    /\ exercisesState' = NoExercises
    /\ exerciseError' = Null
    /\ adaptReq' = [pending |-> TRUE, sent |-> 0]
    /\ UNCHANGED <<result, loadingExercises, exReq, exported>>
    /\ UNCHANGED <<epItems, epOut>>
    /\ UNCHANGED wsVars
    /\ UNCHANGED simVars
    /\ UNCHANGED docVars

\* handleSubmit from the settled fetch to the end of finally
submitSettles(o) ==
    /\ adaptReq.pending
    /\ IF o.kind = "ok"
       THEN /\ result' = o.data
            /\ UNCHANGED error
       ELSE /\ result' = NoResult
            /\ error' = submitErrorText(o)
    /\ loading' = FALSE
    /\ adaptReq' = NoFetch
    /\ UNCHANGED <<exercisesState, loadingExercises, exerciseError, exReq, exported>>
    /\ UNCHANGED <<epItems, epOut>>
    /\ UNCHANGED wsVars
    /\ UNCHANGED simVars
    /\ UNCHANGED docVars

\* handleGenerateExercises with no exercise block selected
generateNoBlocks ==
    /\ ~loadingExercises
    /\ result # NoResult
    /\ exerciseError' = "Select at least one exercise block."
    /\ UNCHANGED <<loading, error, result, exercisesState, loadingExercises, adaptReq, exReq, exported>>
    /\ UNCHANGED <<epItems, epOut>>
    /\ UNCHANGED wsVars
    /\ UNCHANGED simVars
    /\ UNCHANGED docVars

\* handleGenerateExercises up to its first await: the request carries the
\* texts of the adaptation held now
generateStart ==
    /\ ~loadingExercises
    /\ result # NoResult
    /\ loadingExercises' = TRUE
    /\ exerciseError' = Null
    /\ exercisesState' = NoExercises
    /\ exReq' = [pending |-> TRUE, sent |-> result]
    /\ UNCHANGED <<loading, error, result, adaptReq, exported>>
    /\ UNCHANGED <<epItems, epOut>>
    /\ UNCHANGED wsVars
    /\ UNCHANGED simVars
    /\ UNCHANGED docVars

\* handleGenerateExercises from the settled fetch to the end of finally
generateSettles(o) ==
    /\ exReq.pending
    /\ IF o.kind = "ok"
       THEN /\ exercisesState' = [isNull |-> FALSE, from |-> exReq.sent, count |-> o.count]
            /\ UNCHANGED exerciseError
       ELSE /\ exercisesState' = NoExercises
            /\ exerciseError' = orElse(caughtMessage(o), "Something went wrong generating exercises.")
    /\ loadingExercises' = FALSE
    /\ exReq' = NoFetch
    /\ UNCHANGED <<loading, error, result, adaptReq, exported>>
    /\ UNCHANGED <<epItems, epOut>>
    /\ UNCHANGED wsVars
    /\ UNCHANGED simVars
    /\ UNCHANGED docVars

\* handleDownload: returns at once while result is null, else the export
\* lines are built from result
handleDownload ==
    /\ result # NoResult
    /\ exported' = result
    /\ UNCHANGED <<loading, error, result, exercisesState, loadingExercises, exerciseError, adaptReq, exReq>>
    /\ UNCHANGED <<epItems, epOut>>
    /\ UNCHANGED wsVars
    /\ UNCHANGED simVars
    /\ UNCHANGED docVars

InitApp ==
    /\ NoWorksheet
    /\ NoScorer
    /\ NoDocument
    /\ NoRequests

NextApp ==
    \/ submitStart
    \/ \E o \in AdaptOutcomes : submitSettles(o)
    \/ generateNoBlocks
    \/ generateStart
    \/ \E o \in ExerciseOutcomes : generateSettles(o)
    \/ handleDownload

SpecApp == InitApp /\ [][NextApp]_vars

\* every fetch of /api/adapt settles: with a response, or by the browser
\* giving up on the connection
SpecAppLive == SpecApp /\ WF_vars(\E o \in AdaptOutcomes : submitSettles(o))

----------------------------------------------------------------------------
(* Properties of the answer evaluator *)

Neutral   == "feedback neutral"
Correct   == "feedback correct"
Incorrect == "feedback incorrect"

\* x occurs in y as a contiguous run of characters
IsSubstring(x, y) ==
    \E p \in 1..(Len(y) + 1) : \E q \in (p - 1)..Len(y) : SubSeq(y, p, q) = x

\* word occurs in text, letter case ignored
ContainsIgnoreCase(text, word) ==
    \E p \in 1..(Len(text) + 1) : \E q \in (p - 1)..Len(text) :
        toLowerCase(SubSeq(text, p, q)) = word

OrderOrMatching(item) ==
    \/ ContainsIgnoreCase(item.type, T_order)
    \/ ContainsIgnoreCase(item.skill, T_order)
    \/ ContainsIgnoreCase(item.type, T_matching)
    \/ ContainsIgnoreCase(item.skill, T_matching)

\* the blanks the learner can fill in for item i
Blanks(i) == IF dom[i].blank THEN dom[i].texts ELSE <<>>

Graded(i) == fb[i] \in {Correct, Incorrect}

\* C1: after checkAnswers, every item whose type or skill contains "order"
\* or "matching" (any case) is ungraded (neutral feedback) whatever was
\* submitted, and the denominator counts none of these items.
C1_OrderMatchingUngraded ==
    event = "check" =>
        /\ \A i \in Ids : OrderOrMatching(exercises[i]) => fb[i] = Neutral
        /\ score.total <= Cardinality({ i \in Ids : ~OrderOrMatching(exercises[i]) })

\* An ordering/matching item was checked with the expected answer typed in.
C1_Witness ==
    /\ event = "check"
    /\ \E i \in Ids :
        /\ OrderOrMatching(exercises[i])
        /\ ~exercises[i].answer.isArray
        /\ exercises[i].answer.text # <<>>
        /\ Len(dom[i].texts) = 1
        /\ dom[i].texts[1] = exercises[i].answer.text
        /\ fb[i] = Neutral
        /\ score.shown /\ score.total = 0

AllBlanksEqual(i) ==
    \A k \in 1..Len(Blanks(i)) :
        normalize(Blanks(i)[k]) = normalize(exercises[i].answer.list[k])

AllBlanksFilledAndEqual(i) ==
    \A k \in 1..Len(Blanks(i)) :
        /\ normalize(Blanks(i)[k]) # <<>>
        /\ normalize(Blanks(i)[k]) = normalize(exercises[i].answer.list[k])

\* C2 as stated: for an auto-gradable item with a sequence answer, a blank
\* count different from the number of expected values gives ungraded;
\* otherwise the verdict is correct iff every submitted value equals the
\* expected value after trim + lowercase, and incorrect otherwise.
C2_AsStated ==
    event = "check" =>
        \A i \in Ids :
            (~OrderOrMatching(exercises[i]) /\ exercises[i].answer.isArray) =>
                IF Len(Blanks(i)) # Len(exercises[i].answer.list)
                THEN fb[i] = Neutral
                ELSE /\ Graded(i)
                     /\ fb[i] = Correct <=> AllBlanksEqual(i)

\* C2 (amended): for an auto-gradable item with a sequence answer, the
\* verdict is ungraded if there is no blank or the blank count differs from
\* the number of expected values; otherwise it is correct iff at every
\* position the submitted value is non-empty after trim + lowercase and
\* equals the expected value after trim + lowercase, and incorrect otherwise.
C2_MultiBlank ==
    event = "check" =>
        \A i \in Ids :
            (~OrderOrMatching(exercises[i]) /\ exercises[i].answer.isArray) =>
                IF Len(Blanks(i)) = 0 \/ Len(Blanks(i)) # Len(exercises[i].answer.list)
                THEN fb[i] = Neutral
                ELSE /\ Graded(i)
                     /\ fb[i] = Correct <=> AllBlanksFilledAndEqual(i)

\* Two blanks that differ from the key in case and white space only were
\* graded correct.
C2_Witness ==
    /\ event = "check"
    /\ \E i \in Ids :
        /\ exercises[i].answer.isArray
        /\ Len(Blanks(i)) = 2
        /\ Blanks(i)[1] # exercises[i].answer.list[1]
        /\ fb[i] = Correct
        /\ score.correct = 1

\* text of the option the learner selected; empty when none is selected
ChosenText(i) == IF dom[i].checked = 0 THEN <<>> ELSE dom[i].radios[dom[i].checked]

\* C3: for an auto-gradable single-answer item that shows choice options,
\* the verdict is ungraded if no option shown equals the expected answer
\* after trim + lowercase; otherwise it is correct iff the chosen option
\* equals the expected answer after trim + lowercase.
C3_ChoiceGrading ==
    event = "check" =>
        \A i \in Ids :
            (/\ ~OrderOrMatching(exercises[i])
             /\ ~exercises[i].answer.isArray
             /\ Len(dom[i].radios) > 0) =>
                IF \A k \in 1..Len(dom[i].radios) :
                       normalize(dom[i].radios[k]) # normalize(exercises[i].answer.text)
                THEN fb[i] = Neutral
                ELSE /\ Graded(i)
                     /\ fb[i] = Correct <=>
                            normalize(ChosenText(i)) = normalize(exercises[i].answer.text)

FreeText(i) ==
    /\ ~OrderOrMatching(exercises[i])
    /\ ~exercises[i].answer.isArray
    /\ Len(dom[i].radios) = 0

EqualOrContained(x, y) == x = y \/ IsSubstring(x, y) \/ IsSubstring(y, x)

\* C4 as stated: a free-text item is correct iff, after trim + lowercase,
\* submission and expected answer are equal or one is a substring of the
\* other; otherwise it is incorrect.
C4_AsStated ==
    event = "check" =>
        \A i \in Ids :
            FreeText(i) =>
                /\ Graded(i)
                /\ fb[i] = Correct <=>
                       EqualOrContained(normalize(dom[i].texts[1]),
                                        normalize(exercises[i].answer.text))

\* C4 (amended): a free-text item is correct iff the submission is non-empty
\* after trim + lowercase and, after trim + lowercase, submission and
\* expected answer are equal or one is a substring of the other; otherwise
\* it is incorrect.
C4_FreeText ==
    event = "check" =>
        \A i \in Ids :
            FreeText(i) =>
                /\ Graded(i)
                /\ fb[i] = Correct <=>
                       /\ normalize(dom[i].texts[1]) # <<>>
                       /\ EqualOrContained(normalize(dom[i].texts[1]),
                                           normalize(exercises[i].answer.text))

\* A free-text answer was graded correct by containment alone.
C4_Witness ==
    /\ event = "check"
    /\ \E i \in Ids :
        /\ FreeText(i)
        /\ normalize(dom[i].texts[1]) # normalize(exercises[i].answer.text)
        /\ normalize(exercises[i].answer.text) # <<>>
        /\ IsSubstring(normalize(exercises[i].answer.text), normalize(dom[i].texts[1]))
        /\ fb[i] = Correct

\* Items the claim calls gradable: multi-blank with a matching blank count,
\* multiple choice with an option matching the answer, or free text.
Gradable(i) ==
    /\ ~OrderOrMatching(exercises[i])
    /\ IF exercises[i].answer.isArray
       THEN Len(Blanks(i)) > 0 /\ Len(Blanks(i)) = Len(exercises[i].answer.list)
       ELSE Len(dom[i].radios) > 0 =>
                \E k \in 1..Len(dom[i].radios) :
                    normalize(dom[i].radios[k]) = normalize(exercises[i].answer.text)

EmptySubmission(i) ==
    /\ dom[i].checked = 0
    /\ \A k \in 1..Len(dom[i].texts) : dom[i].texts[k] = <<>>

\* C5: a gradable item with an empty or absent submission (empty text
\* field, all blanks empty, no radio selected) is graded incorrect, never
\* correct and never ungraded, and the denominator counts it.
C5_EmptyIsIncorrect ==
    event = "check" =>
        /\ \A i \in Ids : (Gradable(i) /\ EmptySubmission(i)) => fb[i] = Incorrect
        /\ score.total >= Cardinality({ i \in Ids : Gradable(i) /\ EmptySubmission(i) })

\* C6: whenever a score is displayed, the denominator is the number of items
\* graded correct or incorrect, the numerator the number graded correct, and
\* 0 <= correct <= total <= number of items.
C6_ScoreCounts ==
    score.shown =>
        /\ score.total = Cardinality({ i \in Ids : Graded(i) })
        /\ score.correct = Cardinality({ i \in Ids : fb[i] = Correct })
        /\ 0 <= score.correct
        /\ score.correct <= score.total
        /\ score.total <= Len(exercises)

\* A set with an ungraded and a graded item was scored.
C6_Witness ==
    /\ score.shown
    /\ Len(exercises) >= 2
    /\ \E i \in Ids : fb[i] = Neutral
    /\ \E i \in Ids : fb[i] = Correct
    /\ score.total < Len(exercises)
    /\ score.correct >= 1

----------------------------------------------------------------------------
(* Properties of the similarity scorer *)

\* Edit distance by its recursive definition: the least number of
\* single-character insertions, deletions and substitutions turning a into b.
RECURSIVE EditDistance(_, _)
EditDistance(a, b) ==
    IF a = <<>> THEN Len(b)
    ELSE IF b = <<>> THEN Len(a)
    ELSE Min3(EditDistance(Tail(a), b) + 1,
              EditDistance(a, Tail(b)) + 1,
              EditDistance(Tail(a), Tail(b)) + (IF Head(a) = Head(b) THEN 0 ELSE 1))

\* C7: levenshtein(a, b) is the minimum number of single-character
\* insertions, deletions and substitutions that transform a into b.
C7_LevenshteinIsEditDistance ==
    levOut.called => levOut.dist = EditDistance(simA.s, simB.s)

\* A distance that is neither the length difference nor the longer length.
C7_Witness ==
    /\ levOut.called
    /\ Len(simA.s) = 3 /\ Len(simB.s) = 2
    /\ levOut.dist = 2

\* C8: similarity lies in [0, 1].
C8_ScoreInUnitInterval ==
    simOut.called =>
        /\ simOut.den > 0
        /\ 0 <= simOut.num
        /\ simOut.num <= simOut.den

\* A score strictly between 0 and 1 for inputs of different lengths.
C8_Witness ==
    /\ simOut.called
    /\ Len(simNormalize(simA)) < Len(simNormalize(simB))
    /\ 0 < simOut.num
    /\ simOut.num < simOut.den

\* C9: similarity(a, b) = similarity(b, a).
C9_Symmetric ==
    simOut.called => simOut = similarity(simB, simA)

\* A non-zero score below 1 for a longer first argument.
C9_Witness ==
    /\ simOut.called
    /\ Len(simNormalize(simA)) > Len(simNormalize(simB))
    /\ simNormalize(simB) # <<>>
    /\ simOut.num > 0 /\ simOut.num < simOut.den

\* the characters of s that the scorer compares: letters folded to lower
\* case, characters outside the allowlist dropped
Letters(s) == SelectSeq(toLowerCase(s), LAMBDA c : c \in AllowedChars)

\* C10: two inputs with the same non-empty normalized form score exactly 1;
\* in particular similarity(a, a) = 1.
C10_SameNormalFormScoresOne ==
    (/\ simOut.called
     /\ simA.given /\ simB.given
     /\ Letters(simA.s) # <<>>
     /\ Letters(simA.s) = Letters(simB.s)) =>
        simOut.num = simOut.den

\* Inputs that differ in case and in a character outside the allowlist.
C10_Witness ==
    /\ simOut.called
    /\ simA.given /\ simB.given
    /\ simA.s # simB.s
    /\ Len(simA.s) # Len(simB.s)
    /\ Len(Letters(simA.s)) >= 2
    /\ Letters(simA.s) = Letters(simB.s)
    /\ toLowerCase(simA.s) # simA.s
    /\ simOut.num = simOut.den

\* C11: if either input is empty, missing, or normalizes to the empty string
\* (both included), the score is exactly 0 and nothing is divided by zero.
C11_EmptyScoresZero ==
    simOut.called =>
        /\ simOut.den # 0
        /\ (\/ ~simA.given \/ ~simB.given
            \/ Letters(simA.s) = <<>> \/ Letters(simB.s) = <<>>) => simOut.num = 0

\* Both inputs were given and non-empty, and both normalized to nothing.
C11_Witness ==
    /\ simOut.called
    /\ simA.given /\ simB.given
    /\ simA.s # <<>> /\ simB.s # <<>>
    /\ Letters(simA.s) = <<>> /\ Letters(simB.s) = <<>>
    /\ simOut.num = 0 /\ simOut.den = 1

----------------------------------------------------------------------------
(* Properties of the paragraph classifier *)

\* number of characters c at the start of s
RECURSIVE LeadingRun(_, _)
LeadingRun(s, c) == IF s # <<>> /\ Head(s) = c THEN 1 + LeadingRun(Tail(s), c) ELSE 0

Reverse(s) == [k \in 1..Len(s) |-> s[Len(s) + 1 - k]]

TrailingRun(s, c) == LeadingRun(Reverse(s), c)

\* what stands between the leading and the trailing run of equals signs
InnerText(line) ==
    LET t == trim(line)
        k == LeadingRun(t, "=")
        j == TrailingRun(t, "=")
    IN  IF k + j >= Len(t) THEN <<>> ELSE trim(SubSeq(t, k + 1, Len(t) - j))

\* k equals signs, text, k' equals signs, with k, k' >= 3 and a text
DecoratedHeading(line) ==
    /\ LeadingRun(trim(line), "=") >= 3
    /\ TrailingRun(trim(line), "=") >= 3
    /\ InnerText(line) # <<>>

\* C12: for a line of k equals signs, text, k' equals signs (k, k' >= 3,
\* optional white space around the text) the heading text is exactly the
\* inner text, with no equals sign left at either end.
C12_HeadingTextIsInnerText ==
    (paraOut.called /\ DecoratedHeading(paraLine)) =>
        /\ paraOut.p.border
        /\ paraOut.p.text = InnerText(paraLine)

\* C13: a line is a section heading only if non-empty text stands between
\* the leading and the trailing equals signs.
C13_HeadingNeedsText ==
    (paraOut.called /\ paraOut.p.border) => InnerText(paraLine) # <<>>

----------------------------------------------------------------------------
(* Properties of the table extractor *)

\* The trimmed texts between consecutive pipes of a line, from the pipe at p.
RECURSIVE CellsFrom(_, _)
CellsFrom(line, p) ==
    LET later == { k \in (p + 1)..Len(line) : line[k] = "|" }
    IN  IF later = {} THEN <<>>
        ELSE LET q == CHOOSE k \in later : \A m \in later : k <= m
             IN  <<trim(SubSeq(line, p + 1, q - 1))>> \o CellsFrom(line, q)

CellsOf(line) ==
    LET pipes == { k \in 1..Len(line) : line[k] = "|" }
    IN  IF pipes = {} THEN <<>>
        ELSE CellsFrom(line, CHOOSE k \in pipes : \A m \in pipes : k <= m)

\* a cell that is one or more hyphens once its colons are removed
SeparatorCell(c) ==
    /\ \A k \in 1..Len(c) : c[k] \in {"-", ":"}
    /\ \E k \in 1..Len(c) : c[k] = "-"

SeparatorCells(cells) == \A k \in 1..Len(cells) : SeparatorCell(cells[k])

\* The cell lists of the non-separator rows of a run, in input order.
RECURSIVE DataRows(_)
DataRows(run) ==
    IF run = <<>> THEN <<>>
    ELSE LET cells == CellsOf(Head(run))
         IN  (IF SeparatorCells(cells) THEN <<>> ELSE <<cells>>) \o DataRows(Tail(run))

\* the text a table cell shows: the text of its only paragraph
CellText(cell) == cell.children[1].text

ShownAs(c) == IF c = <<>> THEN <<" ">> ELSE c

\* C15: for a run with at least one non-separator row, the table has no
\* separator row, its first row is the first non-separator row and the only
\* one marked as header, and the other non-separator rows follow in input order.
C15_HeaderAndBodyRows ==
    (tblOut.called /\ DataRows(tblRun) # <<>>) =>
        LET rows == tblOut.t.rows
            data == DataRows(tblRun)
        IN  /\ Len(rows) = Len(data)
            /\ \A r \in 1..Len(rows) :
                  /\ Len(rows[r]) = Len(data[r])
                  /\ ~SeparatorCells([c \in 1..Len(rows[r]) |-> CellText(rows[r][c])])
                  /\ \A c \in 1..Len(rows[r]) :
                        /\ Len(rows[r][c].children) = 1
                        /\ CellText(rows[r][c]) = ShownAs(data[r][c])
                        /\ rows[r][c].children[1].bold = (r = 1)

C15_Witness ==
    /\ tblOut.called
    /\ Len(tblRun) = 3
    /\ SeparatorCells(CellsOf(tblRun[2])) /\ CellsOf(tblRun[2]) # <<>>
    /\ Len(DataRows(tblRun)) = 2
    /\ Len(tblOut.t.rows) = 2
    /\ tblOut.t.rows[1][1].children[1].bold
    /\ ~tblOut.t.rows[2][1].children[1].bold

\* C16: a run without any non-separator row gives a table of exactly one row
\* and one cell that holds every line of the run, verbatim and in order.
C16_FallbackKeepsEveryLine ==
    (tblOut.called /\ DataRows(tblRun) = <<>>) =>
        LET rows == tblOut.t.rows
        IN  /\ Len(rows) = 1
            /\ Len(rows[1]) = 1
            /\ Len(rows[1][1].children) = Len(tblRun)
            /\ \A k \in 1..Len(tblRun) : rows[1][1].children[k].text = tblRun[k]

C16_Witness ==
    /\ tblOut.called
    /\ DataRows(tblRun) = <<>>
    /\ Len(tblRun) >= 2
    /\ tblRun[1] # tblRun[2]
    /\ Len(tblOut.t.rows) = 1
    /\ Len(tblOut.t.rows[1][1].children) = Len(tblRun)

\* cells joined by " | "
RECURSIVE JoinCells(_)
JoinCells(cells) ==
    IF cells = <<>> THEN <<>>
    ELSE IF Len(cells) = 1 THEN Head(cells)
    ELSE Head(cells) \o <<" ", "|", " ">> \o JoinCells(Tail(cells))

\* an extracted row written back as a pipe-joined line
FlattenRow(row) ==
    <<"|", " ">> \o JoinCells([c \in 1..Len(row) |-> CellText(row[c])]) \o <<" ", "|">>

\* C17: for a run of table rows with at least one non-separator row, the rows
\* of the extracted table, flattened to pipe-joined lines, carry row by row
\* and cell by cell the trimmed cells of the non-separator rows of the run.
C17_TableRoundTrip ==
    (tblOut.called /\ DataRows(tblRun) # <<>>
        /\ \A k \in 1..Len(tblRun) : hasSecondPipe(tblRun[k])) =>
        LET rows == tblOut.t.rows
            flat == [r \in 1..Len(rows) |-> FlattenRow(rows[r])]
        IN  [r \in 1..Len(flat) |-> CellsOf(flat[r])] = DataRows(tblRun)

C17_Witness ==
    /\ tblOut.called
    /\ \A k \in 1..Len(tblRun) : hasSecondPipe(tblRun[k])
    /\ Len(DataRows(tblRun)) = 2
    /\ Len(DataRows(tblRun)[1]) # Len(DataRows(tblRun)[2])
    /\ \E c \in 1..Len(DataRows(tblRun)[1]) : DataRows(tblRun)[1][c] = <<>>
    /\ Len(tblOut.t.rows) = 2

----------------------------------------------------------------------------
(* Properties of the document composer and of the plain-text export *)

\* a table row: the trimmed text starts with a pipe and has a second pipe
IsTableRow(line) ==
    LET t == trim(line)
    IN  /\ t # <<>>
        /\ t[1] = "|"
        /\ Cardinality({ k \in 1..Len(t) : t[k] = "|" }) >= 2

LastBlock(blocks) == blocks[Len(blocks)]

\* C14: an iteration that starts on a table row emits a table block that
\* consumes exactly the maximal run of consecutive table rows; a line that is
\* not a table row (one pipe only included) ends the run and is consumed
\* alone, as a paragraph block.
C14_TableConsumesMaximalRun ==
    [][ docI' # docI =>
          IF IsTableRow(docLines[docI + 1])
          THEN /\ LastBlock(docBlocks').kind = "table"
               /\ \A k \in (docI + 1)..docI' : IsTableRow(docLines[k])
               /\ docI' < Len(docLines) => ~IsTableRow(docLines[docI' + 1])
          ELSE /\ docI' = docI + 1
               /\ LastBlock(docBlocks').kind = "paragraph" ]_vars

ContentChar(c) == c \notin {" ", "|", "=", "-", ":"}

\* the characters of a text that are neither white space nor decoration
ContentOf(text) == SelectSeq(text, ContentChar)

RECURSIVE Concat(_)
Concat(seqs) == IF seqs = <<>> THEN <<>> ELSE Head(seqs) \o Concat(Tail(seqs))

\* all the text a block carries, in reading order
BlockText(b) ==
    IF b.kind = "paragraph" THEN b.text
    ELSE Concat([r \in 1..Len(b.rows) |->
            Concat([c \in 1..Len(b.rows[r]) |->
                Concat([k \in 1..Len(b.rows[r][c].children) |->
                    b.rows[r][c].children[k].text])])])

\* C18: composing a non-empty list of lines gives at least one block, and the
\* blocks carry the non-blank content of the lines, nothing lost or doubled.
C18_NoContentLost ==
    docPc = "done" =>
        /\ Len(docBlocks) >= 1
        /\ ContentOf(Concat([b \in 1..Len(docBlocks) |-> BlockText(docBlocks[b])]))
             = ContentOf(Concat(docLines))

\* The block kinds a list of lines calls for: one paragraph for each line
\* that is not a table row, one table for each maximal run of table rows.
RECURSIVE Segmentation(_, _)
Segmentation(lines, inRun) ==
    IF lines = <<>> THEN <<>>
    ELSE IF IsTableRow(Head(lines))
         THEN (IF inRun THEN <<>> ELSE <<"table">>) \o Segmentation(Tail(lines), TRUE)
         ELSE <<"paragraph">> \o Segmentation(Tail(lines), FALSE)

\* C19: the pass ends with every line consumed, and its blocks are, in the
\* order of the lines, one paragraph block per non-table line and one table
\* block per maximal run of table rows.
C19_OneBlockPerSegment ==
    /\ docI <= Len(docLines)
    /\ Len(docBlocks) <= docI
    /\ docPc = "done" =>
          /\ docI = Len(docLines)
          /\ [b \in 1..Len(docBlocks) |-> docBlocks[b].kind] = Segmentation(docLines, FALSE)

\* the lines of a text file
FileLines(content) == split(content, NL)

BlockLines(b) ==
    IF b.kind = "paragraph" THEN << b.text >>
    ELSE IF b.width = 0
         THEN [k \in 1..Len(b.rows[1][1].children) |-> b.rows[1][1].children[k].text]
         ELSE [r \in 1..Len(b.rows) |-> FlattenRow(b.rows[r])]

WithoutSpaces(text) == SelectSeq(text, LAMBDA c : c # " ")

\* lines without padding: text, a heading with three signs on each side, or
\* a table row closed by a pipe
PlainLine(line) ==
    /\ line # <<>>
    /\ line = trim(line)
    /\ line[1] = "|" => (Len(line) >= 2 /\ line[Len(line)] = "|")
    /\ LeadingRun(line, "=") \in {0, 3}
    /\ TrailingRun(line, "=") \in {0, 3}

----------------------------------------------------------------------------
(* Properties of the paginated export *)

\* The wrapped lines of a list of lines, in input order, each with a mark on
\* the last wrapped line of its input line.
RECURSIVE Wrapped(_, _)
Wrapped(lines, width) ==
    IF lines = <<>> THEN <<>>
    ELSE LET pieces == splitTextToSize(ShownAs(Head(lines)), width)
         IN  [k \in 1..Len(pieces) |-> [text |-> pieces[k], last |-> k = Len(pieces)]]
               \o Wrapped(Tail(lines), width)

\* the offset reached after the k-th wrapped line was written
OffsetAfter(k) ==
    pdfOut[k].y + pdfOpts.lineHeight
        + (IF Wrapped(docLines, pdfOpts.maxWidth)[k].last THEN 2 ELSE 0)

\* C23: with marginTop <= 280, the wrapped lines are written once each, in
\* input order, at offsets between marginTop and 280; a page is added and the
\* offset set back to marginTop exactly when the running offset is above 280
\* before a wrapped line is written.
C23_PageBreaks ==
    (pdfPc # "idle" /\ pdfOpts.marginTop <= 280) =>
        LET all == Wrapped(docLines, pdfOpts.maxWidth)
            n   == Len(pdfOut)
        IN  /\ n <= Len(all)
            /\ pdfPc = "done" => n = Len(all)
            /\ \A k \in 1..n :
                  /\ pdfOut[k].text = all[k].text
                  /\ pdfOpts.marginTop <= pdfOut[k].y
                  /\ pdfOut[k].y <= 280
            /\ n >= 1 => (pdfOut[1].page = 1 /\ pdfOut[1].y = pdfOpts.marginTop)
            /\ \A k \in 2..n :
                  IF OffsetAfter(k - 1) > 280
                  THEN /\ pdfOut[k].page = pdfOut[k - 1].page + 1
                       /\ pdfOut[k].y = pdfOpts.marginTop
                  ELSE /\ pdfOut[k].page = pdfOut[k - 1].page
                       /\ pdfOut[k].y = OffsetAfter(k - 1)

C23_Witness ==
    /\ pdfPc = "done"
    /\ pdfOpts.marginTop = 270
    /\ pdfOpts.lineHeight = 7
    /\ Len(pdfOut) > Len(docLines)
    /\ pdfPage >= 2
    /\ \E k \in 1..Len(pdfOut) : pdfOut[k].page = 2 /\ pdfOut[k].y > pdfOpts.marginTop

----------------------------------------------------------------------------
(* Properties of the three renderers run over the same lines *)

\* The blocks downloadDocx builds when it runs alone, from index i on.
RECURSIVE ComposeFrom(_, _)
ComposeFrom(lines, i) ==
    IF i >= Len(lines) THEN <<>>
    ELSE IF opensTable(lines[i + 1])
         THEN LET e == tableEnd(lines, i)
              IN  << buildTableFromMarkdown([k \in 1..(e - i) |-> trim(lines[i + k])]) >>
                    \o ComposeFrom(lines, e)
         ELSE << makeParagraph(lines[i + 1]) >> \o ComposeFrom(lines, i + 1)

\* The doc.text calls downloadPdf makes when it runs alone, from the k-th
\* wrapped line on, entered with offset y on page pg.
RECURSIVE PdfFrom(_, _, _, _, _)
PdfFrom(all, o, k, y, pg) ==
    IF k > Len(all) THEN <<>>
    ELSE LET y0  == IF y > 280 THEN o.marginTop ELSE y
             pg0 == IF y > 280 THEN pg + 1 ELSE pg
         IN  << [text |-> all[k].text, y |-> y0, page |-> pg0] >>
               \o PdfFrom(all, o, k + 1,
                          y0 + o.lineHeight + (IF all[k].last THEN 2 ELSE 0), pg0)

txtState  == txtOut
docxState == <<docPc, docI, docBlocks>>
pdfState  == <<pdfPc, pdfI, pdfK, pdfY, pdfPage, pdfOut>>

\* C21: whatever the order and interleaving of the three exports, no step
\* changes the lines, a step of one renderer changes nothing of the other
\* two, and each finished export has the content it has when run alone.
C21_RenderersIndependent ==
    [][ /\ docLines' = docLines
        /\ txtState' # txtState => (docxState' = docxState /\ pdfState' = pdfState)
        /\ docxState' # docxState => (txtState' = txtState /\ pdfState' = pdfState)
        /\ pdfState' # pdfState => (txtState' = txtState /\ docxState' = docxState)
        /\ txtOut'.called => FileLines(txtOut'.content) = docLines
        /\ docPc' = "done" => docBlocks' = ComposeFrom(docLines, 0)
        /\ pdfPc' = "done" =>
              pdfOut' = PdfFrom(Wrapped(docLines, pdfOpts.maxWidth), pdfOpts, 1,
                                pdfOpts.marginTop, 1) ]_vars

\* all three exports finished, the text one started while the other two
\* were inside their loops
C21_Witness ==
    /\ txtOut.called
    /\ docPc = "done"
    /\ pdfPc = "done"
    /\ Len(docLines) = 3
    /\ \E k \in 1..3 : docLines[k] # trim(docLines[k])
    /\ Len(docBlocks) = 2
    /\ Len(pdfOut) = 3

----------------------------------------------------------------------------
(* Properties of the exercises route *)

\* C22: the items returned have the ids 1..N in ascending order, they are
\* the items received (as many, each once), and a list whose ids already
\* are 1..N keeps the id of each item.
C22_IdsConsecutive ==
    epOut.called =>
        LET out == epOut.items
            n   == Len(epItems)
        IN  /\ Len(out) = n
            /\ \A k \in 1..n : out[k].id = k
            /\ { out[k].tag : k \in 1..n } = 1..n
            /\ { epItems[k].id : k \in 1..n } = 1..n =>
                  \A k \in 1..n : epItems[out[k].tag].id = out[k].id

C22_Witness ==
    /\ epOut.called
    /\ Len(epItems) = 3
    /\ epItems[1].id = 3 /\ epItems[2].id = 3 /\ epItems[3].id = 0
    /\ epOut.items[1].tag = 3
    /\ epOut.items[2].tag = 1
    /\ epOut.items[3].id = 3

----------------------------------------------------------------------------
(* Properties of blank lines in the document composer *)

\* a line that is empty or holds white space only
Blank(line) == trim(line) = <<>>

PlainParagraph(b) == b.kind = "paragraph" /\ ~b.bold /\ ~b.border

\* C24 (as stated): every blank line, empty or of white space only, is
\* consumed alone and becomes a paragraph block whose text is one space.
C24_AsStated ==
    [][ docI' # docI =>
          \A k \in (docI + 1)..docI' :
              Blank(docLines[k]) =>
                  /\ docI' = docI + 1
                  /\ Len(docBlocks') = Len(docBlocks) + 1
                  /\ LastBlock(docBlocks').kind = "paragraph"
                  /\ LastBlock(docBlocks').text = <<" ">> ]_vars

\* C24 (as amended): every blank line is consumed alone and becomes a plain
\* paragraph block of its own; the text of the block is one space for an
\* empty line and the line itself for a line of white space.
C24_BlankLineKeepsOwnParagraph ==
    [][ docI' # docI =>
          \A k \in (docI + 1)..docI' :
              Blank(docLines[k]) =>
                  /\ docI' = docI + 1
                  /\ Len(docBlocks') = Len(docBlocks) + 1
                  /\ SubSeq(docBlocks', 1, Len(docBlocks)) = docBlocks
                  /\ PlainParagraph(LastBlock(docBlocks'))
                  /\ LastBlock(docBlocks').text =
                        IF docLines[k] = <<>> THEN <<" ">> ELSE docLines[k] ]_vars

C24_Witness ==
    /\ docPc = "done"
    /\ docLines = << <<"|", "A", "|", "b", "|">>, <<" ", " ">>, <<>> >>
    /\ Len(docBlocks) = 3
    /\ docBlocks[1].kind = "table"
    /\ docBlocks[2].text = <<" ", " ">>
    /\ docBlocks[3].text = <<" ">>

----------------------------------------------------------------------------
(* Properties of the similarity normalization *)

\* lower case, characters other than letters, digits and white space
\* removed, ends trimmed: interior white space stays
SpacedNormalForm(t) ==
    trim(SelectSeq(toLowerCase(t), LAMBDA c : c \in AllowedChars \/ IsSpace(c)))

\* C25: the score is computed on the normal forms that keep interior white
\* space: it is 1 - distance / longer length of those forms, so that two
\* phrases that differ by a space between words do not score 1.
C25_InteriorSpaceCounts ==
    (simOut.called /\ simA.given /\ simB.given) =>
        LET n1 == SpacedNormalForm(simA.s)
            n2 == SpacedNormalForm(simB.s)
            longer == Max2(Len(n1), Len(n2))
        IN  (n1 # <<>> /\ n2 # <<>>) =>
                simOut.num * longer = (longer - EditDistance(n1, n2)) * simOut.den

----------------------------------------------------------------------------
(* Properties of the worksheet across modes and checks *)

\* C26: a single-answer item with a non-empty expected answer that shows
\* choice options and was graded by the last Check has, among the options shown in the active mode, at
\* least one that equals the expected answer after trim + lowercase (the
\* option that is graded correct when selected).
C26_GradedChoiceIsAnswerable ==
    event = "check" =>
        \A i \in Ids :
            (/\ ~exercises[i].answer.isArray
             /\ normalize(exercises[i].answer.text) # <<>>
             /\ Len(dom[i].radios) > 0
             /\ Graded(i)) =>
                \E k \in 1..Len(dom[i].radios) :
                    normalize(dom[i].radios[k]) = normalize(exercises[i].answer.text)

\* C27: every Check displays the counts of the verdicts it has just given,
\* whatever was displayed before, and a Check that follows a Check without
\* any input in between displays the same score and the same verdicts.
C27_CheckRecomputes ==
    [][ event' = "check" =>
          /\ score'.shown
          /\ score'.correct = Cardinality({ i \in Ids : fb'[i] = Correct })
          /\ score'.total = Cardinality({ i \in Ids : fb'[i] \in {Correct, Incorrect} })
          /\ event = "check" => (score' = score /\ fb' = fb /\ dom' = dom) ]_vars

\* a score with a correct item is on display, and the inputs were edited
\* since so that no item would be graded correct now
C27_Witness ==
    /\ event = "input"
    /\ score.shown
    /\ score.correct >= 1
    /\ \A i \in Ids : ~(gradeItem(exercises[i], dom[i]).auto
                        /\ gradeItem(exercises[i], dom[i]).isCorrect)

\* every input of every item as renderQuestions creates it: nothing typed,
\* nothing selected, no label marked
AllInputsEmpty(d) ==
    \A i \in 1..Len(d) :
        /\ d[i].checked = 0
        /\ \A k \in 1..Len(d[i].texts) : d[i].texts[k] = <<>>
        /\ \A k \in 1..Len(d[i].labelClass) : d[i].labelClass[k] = ""

\* C28: setMode(m) makes m the active mode, leaves every input empty and
\* every verdict blank and clears the score; a Check that directly follows
\* a mode switch reports 0 correct.
C28_SwitchResets ==
    [][ /\ event' = "setMode" =>
             /\ mode' \in Modes
             /\ dom' = renderQuestions(exercises, mode')
             /\ AllInputsEmpty(dom')
             /\ \A i \in Ids : fb'[i] = FreshFeedback
             /\ ~score'.shown
        /\ (event = "setMode" /\ event' = "check") => score'.correct = 0 ]_vars

----------------------------------------------------------------------------
(* Properties of the page component *)

\* C29: whenever an exercise set is held, an adaptation is held and it is
\* the one whose texts were sent in the request that produced the set.
C29_ExercisesMatchResult ==
    ~exercisesState.isNull =>
        /\ result # NoResult
        /\ exercisesState.from = result

====
